---- MODULE Spec2Model ----
(***************************************************************************)
(* gpt-vis-mcp: startup (directory initialisation, upstream discovery,     *)
(* tool registration), the MCP tool handlers and the HTTP surface.         *)
(*                                                                         *)
(* Strings the program builds are modelled as tuples of their parts, in    *)
(* the order the template literal concatenates them.  JavaScript objects   *)
(* (payloads, render options, ChartResponse) are functions whose DOMAIN is *)
(* the set of own keys.  The renderer and the upstream discovery process   *)
(* are external: their outcomes are nondeterministic.  vis.exportToFile is *)
(* called without await (app.ts:153, :224): it is a synchronous call that  *)
(* either returns after the file is written or throws.  A handler runs     *)
(* without interruption between two awaits; the only await of a handler    *)
(* that lets other invocations run is the one of render().                 *)
(***************************************************************************)
EXTENDS Integers, Sequences, FiniteSets, Bags, TLC

VARIABLES
    pc,          \* position of the module top level / entry point
    mode,        \* entry point: main() in "mcp" or "http" mode, "stdio", "sse"
    config,      \* ServerConfig, read from the environment at load
    pathState,   \* what config.renderedImagePath is on disk: "absent", "dir", "file"
    tools,       \* result of composeMcpDepTools: the descriptors of the mapping
    regQueue,    \* supportedTools not yet visited by forEach
    registered,  \* the registrations made with server.tool
    startupLog,  \* startup events, in the order they happened
    inflight,    \* bag of the invocations awaiting render(), with their options
    files,       \* filenames present under renderedImagePath
    now,         \* Date.now()
    resp,        \* the last response handed to a transport
    accepted,    \* has any invocation been dispatched to a handler?
    children,    \* child processes spawned by this process and still running
    call,        \* a call of a function of the constants module, with its result
    args,        \* Deno.args: the command line of the process
    env          \* the environment variables of the process

vars == <<pc, mode, config, pathState, tools, regQueue, registered, startupLog,
          inflight, files, now, resp, accepted, children, call, args, env>>

----------------------------------------------------------------------------
(* Bounds *)

MaxTools == 2        \* tools returned by one discovery
MaxInFlight == 2     \* invocations awaiting the renderer at once
MaxTime == 2         \* Date.now() ranges over 1..MaxTime

----------------------------------------------------------------------------
(* constant.ts *)

CHART_TYPE_MAP ==
    [ generate_area_chart |-> "area",
      generate_bar_chart |-> "bar",
      generate_boxplot_chart |-> "boxplot",
      generate_column_chart |-> "column",
      generate_district_map |-> "district-map",
      generate_dual_axes_chart |-> "dual-axes",
      generate_fishbone_diagram |-> "fishbone-diagram",
      generate_flow_diagram |-> "flow-diagram",
      generate_funnel_chart |-> "funnel",
      generate_histogram_chart |-> "histogram",
      generate_line_chart |-> "line",
      generate_liquid_chart |-> "liquid",
      generate_mind_map |-> "mind-map",
      generate_network_graph |-> "network-graph",
      generate_organization_chart |-> "organization-chart",
      generate_path_map |-> "path-map",
      generate_pie_chart |-> "pie",
      generate_pin_map |-> "pin-map",
      generate_radar_chart |-> "radar",
      generate_sankey_chart |-> "sankey",
      generate_scatter_chart |-> "scatter",
      generate_treemap_chart |-> "treemap",
      generate_venn_chart |-> "venn",
      generate_violin_chart |-> "violin",
      generate_word_cloud_chart |-> "word-cloud" ]

CHART_TYPE_UNSUPPORTED ==
    << "geographic_district_map", "geographic_path_map", "geographic_pin_map" >>

\* The absent value of JavaScript (undefined).
Undefined == "<undefined>"

\* CHART_TYPE_MAP is an object literal: besides its own keys it has the
\* properties it inherits from Object.prototype, whose values are functions
\* (an object for __proto__), none of them a string.
ObjectPrototypeKeys ==
    { "constructor", "toString", "toLocaleString", "valueOf", "hasOwnProperty",
      "isPrototypeOf", "propertyIsEnumerable", "__proto__",
      "__defineGetter__", "__defineSetter__", "__lookupGetter__",
      "__lookupSetter__" }

InheritedProperty == "<inherited property>"

\* Variant: the entry of generate_pie_chart is the empty token.
MapLookupEmptyPie(name) ==
    IF name = "generate_pie_chart" THEN ""
    ELSE IF name \in DOMAIN CHART_TYPE_MAP THEN CHART_TYPE_MAP[name]
    ELSE IF name \in ObjectPrototypeKeys THEN InheritedProperty
    ELSE Undefined

\* CHART_TYPE_MAP[name as keyof typeof CHART_TYPE_MAP]: the own entry, else
\* the inherited property, else undefined.
MapLookup(name) ==
    IF name \in DOMAIN CHART_TYPE_MAP THEN CHART_TYPE_MAP[name]
    ELSE IF name \in ObjectPrototypeKeys THEN InheritedProperty
    ELSE Undefined

\* JavaScript truthiness of a string-or-undefined value.
Truthy(v) == v # Undefined /\ v # ""

----------------------------------------------------------------------------
(* JavaScript values compared by Array.prototype.includes (SameValueZero):  *)
(* a string is never equal to an object.                                   *)

JsString(s) == [tag |-> "string", val |-> s]
JsObject(o) == [tag |-> "object", val |-> o]
SameValueZero(a, b) == a.tag = b.tag /\ a.val = b.val
Includes(arr, x) == \E i \in DOMAIN arr : SameValueZero(JsString(arr[i]), x)

\* name in obj: own keys and inherited ones.
In(name, obj) == name \in DOMAIN obj \/ name \in ObjectPrototypeKeys

\* isChartSupported of the documented constants module.
isChartSupported(toolName) ==
    /\ In(toolName, CHART_TYPE_MAP)
    /\ ~ Includes(CHART_TYPE_UNSUPPORTED, JsString(toolName))

----------------------------------------------------------------------------
(* The upstream discovery process.  Names it may advertise: a tool of the  *)
(* map, a geographic tool of the map, a name of the denylist, and a tool   *)
(* the map does not know.                                                  *)

UpstreamNames ==
    { "generate_pie_chart", "generate_pin_map", "geographic_pin_map",
      "generate_waterfall_chart" }

\* The descriptor upstream advertises for a name (MCPTool).
MCPTool(n) ==
    [ name |-> n,
      description |-> <<"description of ", n>>,
      inputSchema |-> <<"schema of ", n>> ]

\* Possible results of composeMcpDepTools: the values of a mapping keyed by
\* tool name, hence at most one descriptor per name.
Catalogs ==
    { { MCPTool(n) : n \in S } :
        S \in { T \in SUBSET UpstreamNames : Cardinality(T) <= MaxTools } }

Names(S) == { t.name : t \in S }

----------------------------------------------------------------------------
(* app.ts: configuration *)

DefaultImagePath == << "tmp", "gpt-vis-charts" >>

\* process.env.RENDERED_IMAGE_HOST_PATH: unset, set to the empty string, or
\* set to a URL prefix.
HostPathValues == { Undefined, "", "https://example.com/images" }

\* join(dir, filename): the segments of dir followed by the filename.
Join(dir, filename) == Append(dir, filename)

\* The environment is a mapping from the names of the variables that are set
\* to their values.  Deno.env.get(name) / process.env[name]: undefined for a
\* variable that is not set.
NoEnv == << >>
IsSet(e, name) == name \in DOMAIN e
EnvGet(e, name) == IF IsSet(e, name) THEN e[name] ELSE Undefined

\* Deno.env.set(name, value)
EnvSet(e, name, value) ==
    [ x \in DOMAIN e \cup {name} |-> IF x = name THEN value ELSE e[x] ]

\* a || b on strings and undefined.
OrElse(a, b) == IF Truthy(a) THEN a ELSE b

\* The config object literal, evaluated once when app.ts is loaded:
\* RENDERED_IMAGE_PATH ?? join(tmpdir(), "gpt-vis-charts") keeps any value
\* that is set, and renderedImageHostPath is the variable as it is.
LoadConfig(e) ==
    [ renderedImagePath |->
          IF IsSet(e, "RENDERED_IMAGE_PATH") THEN e["RENDERED_IMAGE_PATH"]
          ELSE DefaultImagePath,
      renderedImageHostPath |-> EnvGet(e, "RENDERED_IMAGE_HOST_PATH") ]

\* The environments the server is started in: RENDERED_IMAGE_HOST_PATH as in
\* HostPathValues, the other variables not set.
Envs ==
    { IF h = Undefined THEN NoEnv
      ELSE EnvSet(NoEnv, "RENDERED_IMAGE_HOST_PATH", h) : h \in HostPathValues }

----------------------------------------------------------------------------
(* app.ts: startup *)

Log(e) == startupLog' = Append(startupLog, e)

\* Variant: a plain mkdir without the access test, which fails on a path
\* that exists.
initializeImageDirectoryNoCheck(state, mkdirOk) ==
    IF state = "absent" /\ mkdirOk
    THEN [threw |-> FALSE, state |-> "dir"]
    ELSE [threw |-> TRUE, state |-> state]

\* initializeImageDirectory: access(F_OK) succeeds for anything that exists
\* at the path; otherwise mkdir({recursive: true}), whose failure is
\* rethrown as "Failed to initialize image directory: ...".
initializeImageDirectory(state, mkdirOk) ==
    IF state # "absent"
    THEN [threw |-> FALSE, state |-> state]
    ELSE IF mkdirOk
         THEN [threw |-> FALSE, state |-> "dir"]
         ELSE [threw |-> TRUE, state |-> state]

\* The call at the module top level (app.ts:250-256): a throw ends the
\* process with exit(1).
InitializeAtStartup ==
    /\ pc = "init_dir"
    /\ \E mkdirOk \in BOOLEAN :
          LET r == initializeImageDirectory(pathState, mkdirOk) IN
             /\ pathState' = r.state
             /\ IF r.threw
                THEN pc' = "exit_1" /\ Log("dir_init_failed")
                ELSE pc' = "discover" /\ Log("dir_init_done")
    /\ UNCHANGED <<mode, config, tools, regQueue, registered, inflight, files,
                   now, resp, accepted>>
    /\ UNCHANGED <<children, call, args, env>>

\* The upstream subprocess ("npx -y @antv/mcp-server-chart") that stays
\* connected after a discovery returning catalog c: a catalog with tools was
\* advertised by a running subprocess; an empty one comes from a subprocess
\* without tools or from one that did not start.
UpstreamChild == "mcp-server-chart"
Spawned(c) == IF c = {} THEN { {}, {UpstreamChild} } ELSE { {UpstreamChild} }

\* await composeMcpDepTools(...): returns a catalog (possibly empty) or
\* rejects, which ends the module evaluation with an uncaught error.  Nothing
\* in app.ts closes the clients composeMcpDepTools connected.
ComposeMcpDepTools ==
    /\ pc = "discover"
    /\ \/ \E c \in Catalogs : \E spawned \in Spawned(c) :
             /\ tools' = c
             /\ children' = children \cup spawned
             /\ pc' = "create_server"
             /\ Log("discovery_done")
       \/ /\ pc' = "uncaught"
          /\ Log("discovery_failed")
          /\ UNCHANGED <<tools, children>>
    /\ UNCHANGED <<mode, config, pathState, regQueue, registered, inflight,
                   files, now, resp, accepted, call, args, env>>

\* The filter of app.ts:350: keeps the tools whose name is not in the
\* denylist.
SupportedTools(ts) ==
    { tool \in ts : ~ Includes(CHART_TYPE_UNSUPPORTED, JsString(tool.name)) }

\* new ComposableMCPServer(...) and the computation of supportedTools.
CreateServer ==
    /\ pc = "create_server"
    /\ regQueue' = SupportedTools(tools)
    /\ pc' = "register"
    /\ Log("server_created")
    /\ UNCHANGED <<mode, config, pathState, tools, registered, inflight,
                   files, now, resp, accepted>>
    /\ UNCHANGED <<children, call, args, env>>

\* jsonSchema(inputSchema) of the ai package: a Schema object that holds
\* the JSON schema it was given.
jsonSchema(schema) == [ jsonSchema |-> schema ]

\* Variant: the description is replaced by the name of the tool.
RegistrationNamedDescription(tool) ==
    [ name |-> tool.name,
      description |-> << tool.name >>,
      inputSchema |-> jsonSchema(tool.inputSchema),
      handler |-> tool.name ]

\* The arguments of server.tool for a descriptor: the name, the description
\* and the schema destructured from it, and a handler, which is a closure
\* over that name.
Registration(tool) ==
    [ name |-> tool.name,
      description |-> tool.description,
      inputSchema |-> jsonSchema(tool.inputSchema),
      handler |-> tool.name ]

\* Does registerToolWithLocalExecutor return before server.tool?
SkipsTool(tool) == Includes(CHART_TYPE_UNSUPPORTED, JsString(tool.name))

\* One iteration of supportedTools.forEach(registerToolWithLocalExecutor).
RegisterToolWithLocalExecutor ==
    /\ pc = "register"
    /\ \E tool \in regQueue :
          /\ IF SkipsTool(tool)
             THEN UNCHANGED <<registered, startupLog>>
             ELSE /\ registered' = registered \cup { Registration(tool) }
                  /\ Log("registered")
          /\ regQueue' = regQueue \ {tool}
    /\ UNCHANGED <<pc, mode, config, pathState, tools, inflight, files, now,
                   resp, accepted>>
    /\ UNCHANGED <<children, call, args, env>>

\* The forEach is over: the module app.ts has been evaluated.
StartupComplete ==
    /\ pc = "register"
    /\ regQueue = {}
    /\ pc' = "ready"
    /\ Log("registration_done")
    /\ UNCHANGED <<mode, config, pathState, tools, regQueue, registered,
                   inflight, files, now, resp, accepted>>
    /\ UNCHANGED <<children, call, args, env>>

----------------------------------------------------------------------------
(* JavaScript values of the payloads: JSON null, a JSON number, an object   *)
(* with some of the keys type, data, title; and a body that is not JSON.   *)

JsNull == [kind |-> "null"]
JsNumber == [kind |-> "number"]
Unparseable == [kind |-> "unparseable"]
Object(f) == [kind |-> "object", fields |-> f]

\* v.k of a destructuring pattern: undefined when v has no own key k.
Get(v, k) ==
    IF v.kind = "object" /\ k \in DOMAIN v.fields THEN v.fields[k] ELSE Undefined

\* Own keys of v other than type and data (...restOptions).
RestKeys(v) ==
    IF v.kind = "object" THEN DOMAIN v.fields \ { "type", "data" } ELSE {}

\* Payloads of a tool invocation: no payload, an empty one, one with data,
\* one that also names a chart type and carries an option.
Contexts ==
    { JsNull,
      Object(<<>>),
      Object([data |-> "rows"]),
      Object([data |-> "rows", type |-> "pin-map", title |-> "Sales"]) }

\* Bodies of POST /generate.
Bodies ==
    { Unparseable, JsNull, JsNumber,
      Object([data |-> "rows"]),
      Object([type |-> "", data |-> "rows"]),
      Object([type |-> "pie", data |-> "rows", title |-> "Sales"]),
      Object([type |-> "invalid_chart_type", data |-> "rows"]) }

----------------------------------------------------------------------------
(* Completions: a call returns a value or throws an error.                 *)

Return(v) == [threw |-> FALSE, value |-> v]
Throw(e) == [threw |-> TRUE, error |-> e]
Error(msg) == [isError |-> TRUE, message |-> msg]
NonError(str) == [isError |-> FALSE, str |-> str]

\* error instanceof Error ? error.message : String(error)
ErrorMessage(e) == IF e.isError THEN e.message ELSE <<e.str>>

DestructureError == Error(<<"Cannot destructure property of null">>)
ObjectKeysError == Error(<<"Cannot convert undefined or null to object">>)
JsonSyntaxError == Error(<<"Unexpected token in JSON">>)

----------------------------------------------------------------------------
(* The renderer (@yaonyan/gpt-vis-ssr-napi-rs), external.                   *)

RendererTypes == { CHART_TYPE_MAP[n] : n \in DOMAIN CHART_TYPE_MAP }

RenderErrors == { Error(<<"render failed">>), NonError("render rejected") }
ExportErrors == { Error(<<"EACCES: permission denied">>) }

\* Outcomes of await render(options): a type the renderer does not know is
\* rejected; any other call returns a handle or throws.
RenderOutcomes(options) ==
    { Throw(e) : e \in RenderErrors } \cup
    (IF options["type"] \in RendererTypes THEN { Return("vis") } ELSE {})

\* Outcomes of vis.exportToFile(fullPath, {}): the file is written only
\* when the path it is written under is a directory.
ExportOutcomes(state) ==
    { Throw(e) : e \in ExportErrors } \cup
    (IF state = "dir" THEN { Return("written") } ELSE {})

\* generateId(8)
Ids == { "a1b2c3d4" }

----------------------------------------------------------------------------
(* app.ts: chart generation *)

\* Variant: the name has no timestamp.
generateImageFilenameIdOnly(id, timestamp) == << "chart_", id, ".png" >>

generateImageFilename(id, timestamp) == << "chart_", timestamp, "_", id, ".png" >>

\* Variant: the HTTP flag is ignored (the MCP location on both paths).
generateImageResponseIgnoresHttp(filename, forHttp, cfg) ==
    IF Truthy(cfg.renderedImageHostPath)
    THEN << cfg.renderedImageHostPath, "/", filename >>
    ELSE Join(cfg.renderedImagePath, filename)

generateImageResponse(filename, forHttp, cfg) ==
    IF Truthy(cfg.renderedImageHostPath)
    THEN << cfg.renderedImageHostPath, "/", filename >>
    ELSE IF forHttp
         THEN << "/charts/", filename >>
         ELSE Join(cfg.renderedImagePath, filename)

ChartResult(isError, text) ==
    [ isError |-> isError, content |-> << [type |-> "text", text |-> text] >> ]

\* A completion together with the files the call wrote.
Wrote(c, written) == [threw |-> c.threw, written |-> written] @@ c

\* Variant: the file is exported under a generated name before the outcome
\* of render() is looked at.
generateChartTryExportsFirst(ro, id, ts, eo, cfg) ==
    LET filename == generateImageFilename(id, ts) IN
    IF ro.threw THEN Wrote(Throw(ro.error), IF eo.threw THEN {} ELSE {filename})
    ELSE IF eo.threw THEN Wrote(Throw(eo.error), {})
         ELSE LET imageUrl == generateImageResponse(filename, FALSE, cfg) IN
              Wrote(Return(ChartResult(FALSE,
                        IF Truthy(cfg.renderedImageHostPath)
                        THEN << "Chart generated successfully! Access it at: ",
                                imageUrl >>
                        ELSE << "Chart generated and saved to: ", imageUrl >>)),
                    {filename})

\* The try block of generateChart from the point where render() settles
\* with outcome ro; eo is the outcome of exportToFile.
generateChartTry(ro, id, ts, eo, cfg) ==
    IF ro.threw THEN Wrote(Throw(ro.error), {})
    ELSE LET filename == generateImageFilename(id, ts) IN
         IF eo.threw THEN Wrote(Throw(eo.error), {})
         ELSE LET imageUrl == generateImageResponse(filename, FALSE, cfg) IN
              Wrote(Return(ChartResult(FALSE,
                        IF Truthy(cfg.renderedImageHostPath)
                        THEN << "Chart generated successfully! Access it at: ",
                                imageUrl >>
                        ELSE << "Chart generated and saved to: ", imageUrl >>)),
                    {filename})

\* Variant: the catch reports the failure without the message of the error.
generateChartNoCause(ro, id, ts, eo, cfg) ==
    LET c == generateChartTry(ro, id, ts, eo, cfg) IN
    IF c.threw
    THEN Wrote(Return(ChartResult(TRUE, << "Failed to generate chart: " >>)),
               c.written)
    ELSE c

\* generateChart: the try block and its catch.
generateChart(ro, id, ts, eo, cfg) ==
    LET c == generateChartTry(ro, id, ts, eo, cfg) IN
    IF c.threw
    THEN Wrote(Return(ChartResult(TRUE, << "Failed to generate chart: " >>
                                           \o ErrorMessage(c.error))),
               c.written)
    ELSE c

\* The render options of generateChartForHttp: {type, data, ...restOptions}.
HttpRenderOptions(body) ==
    [ k \in { "type", "data" } \cup RestKeys(body) |-> Get(body, k) ]

\* Variant: the type is only checked to be present, so "" passes.
HttpPreludeAcceptsEmpty(body) ==
    IF body.kind = "null" THEN Throw(DestructureError)
    ELSE IF Get(body, "type") = Undefined
         THEN Throw(Error(<<"Chart type is required">>))
         ELSE Return(HttpRenderOptions(body))

\* generateChartForHttp up to render(): the destructuring of the body and
\* the validation of the type.
HttpPrelude(body) ==
    IF body.kind = "null" THEN Throw(DestructureError)
    ELSE IF ~ Truthy(Get(body, "type"))
         THEN Throw(Error(<<"Chart type is required">>))
         ELSE Return(HttpRenderOptions(body))

\* Variant: a throw of exportToFile is not noticed.
generateChartForHttpTryIgnoresExport(ro, id, ts, eo, cfg) ==
    IF ro.threw THEN Wrote(Throw(ro.error), {})
    ELSE LET filename == generateImageFilename(id, ts) IN
         Wrote(Return([ success |-> TRUE,
                        resultObj |->
                           generateImageResponse(filename, TRUE, cfg) ]),
               IF eo.threw THEN {} ELSE {filename})

\* The try block of generateChartForHttp from the point where render()
\* settles.
generateChartForHttpTry(ro, id, ts, eo, cfg) ==
    IF ro.threw THEN Wrote(Throw(ro.error), {})
    ELSE LET filename == generateImageFilename(id, ts) IN
         IF eo.threw THEN Wrote(Throw(eo.error), {})
         ELSE Wrote(Return([ success |-> TRUE,
                             resultObj |->
                                generateImageResponse(filename, TRUE, cfg) ]),
                    {filename})

\* Variant: the failure envelope also carries an (empty) resultObj.
generateChartForHttpBothFields(c) ==
    IF c.threw
    THEN Wrote(Return([ success |-> FALSE, resultObj |-> <<>>,
                        errorMessage |-> ErrorMessage(c.error) ]),
               c.written)
    ELSE c

\* The catch of generateChartForHttp, for a completion c of its try block.
generateChartForHttp(c) ==
    IF c.threw
    THEN Wrote(Return([ success |-> FALSE,
                        errorMessage |-> ErrorMessage(c.error) ]),
               c.written)
    ELSE c

----------------------------------------------------------------------------
(* app.ts: the handler registerToolWithLocalExecutor binds to a tool name  *)

\* Variant: a type named by the payload wins over the tool's own.
HandlerTypeFromPayload(name, context) ==
    IF Truthy(Get(context, "type")) THEN Get(context, "type") ELSE MapLookup(name)

\* The chart type the handler of tool name resolves, given the payload.
HandlerType(name, context) == MapLookup(name)

\* Variant: the resolved type is not tested before it is used.
McpPreludeNoTypeCheck(name, context) ==
    IF context.kind = "null" THEN Throw(DestructureError)
    ELSE LET data == Get(context, "data")
             type == HandlerType(name, context) IN
         IF data = Undefined THEN Throw(ObjectKeysError)
         ELSE Return([type |-> type, data |-> data])

\* The try block of the handler up to the call of generateChart: extraction
\* of data and resolution of the chart type.
McpPrelude(name, context) ==
    IF context.kind = "null" THEN Throw(DestructureError)
    ELSE LET data == Get(context, "data")
             type == HandlerType(name, context) IN
         IF data = Undefined THEN Throw(ObjectKeysError)
         ELSE IF ~ Truthy(type)
              THEN Throw(Error(<<"Unknown chart type for tool: ", name>>))
              ELSE Return([type |-> type, data |-> data])

\* Variant: no catch, the completion of the try block is the handler's.
HandlerWithoutCatch(name, c) == c

\* The catch of the handler, for a completion c of its try block.
Handler(name, c) ==
    IF c.threw
    THEN Wrote(Return(ChartResult(TRUE, << "Error executing ", name, ": " >>
                                           \o ErrorMessage(c.error))),
               c.written)
    ELSE c

----------------------------------------------------------------------------
(* stdio.server.ts and the HTTP server: entry points *)

\* String.prototype.toLowerCase, on the mode strings of the command lines
\* below: the ones with capitals are listed, any other is in lower case.
ToLowerCase(s) ==
    CASE s = "HTTP" -> "http"
      [] s = "Mcp" -> "mcp"
      [] OTHER -> s

\* main(): mode = args[0] || MODE, with MODE = Deno.env.get("MODE") || "mcp",
\* then mode.toLowerCase().
MainMode(a, e) ==
    LET MODE == OrElse(EnvGet(e, "MODE"), "mcp")
        first == IF Len(a) >= 1 THEN a[1] ELSE Undefined
    IN ToLowerCase(OrElse(first, MODE))

\* Variant: MODE wins over the first argument.
MainSwitchEnvFirst(a, e) ==
    LET m == ToLowerCase(OrElse(EnvGet(e, "MODE"),
                                OrElse(IF Len(a) >= 1 THEN a[1] ELSE Undefined,
                                       "mcp")))
    IN CASE m \in { "mcp", "stdio" } -> "mcp"
         [] m \in { "http", "server" } -> "http"
         [] m \in { "help", "--help", "-h" } -> "help"
         [] OTHER -> "unknown"

\* The switch of main(): the branch taken for the command line a and the
\* environment e.
MainSwitch(a, e) ==
    LET m == MainMode(a, e)
    IN CASE m \in { "mcp", "stdio" } -> "mcp"
         [] m \in { "http", "server" } -> "http"
         [] m \in { "help", "--help", "-h" } -> "help"
         [] OTHER -> "unknown"

\* Variant: the transport is connected without waiting for the forEach.
ConnectEarly ==
    /\ pc \in { "register", "ready" }
    /\ mode = "mcp"
    /\ pc' = "connected"
    /\ Log("connect")
    /\ UNCHANGED <<mode, config, pathState, tools, regQueue, registered,
                   inflight, files, now, resp, accepted>>
    /\ UNCHANGED <<children, call, args, env>>

\* await server.connect(transport), after the import of app.ts has been
\* evaluated.
Connect ==
    /\ pc = "ready"
    /\ mode = "mcp"
    /\ pc' = "connected"
    /\ Log("connect")
    /\ UNCHANGED <<mode, config, pathState, tools, regQueue, registered,
                   inflight, files, now, resp, accepted>>
    /\ UNCHANGED <<children, call, args, env>>

\* startHttpServer: initializeImageDirectory again, then Deno.serve.  A
\* throw reaches the caller's catch, which exits with code 1.
StartHttpServer ==
    /\ pc = "ready"
    /\ mode = "http"
    /\ \E mkdirOk \in BOOLEAN :
          LET r == initializeImageDirectory(pathState, mkdirOk) IN
             /\ pathState' = r.state
             /\ IF r.threw
                THEN pc' = "exit_1" /\ Log("http_init_failed")
                ELSE pc' = "listening" /\ Log("listen")
    /\ UNCHANGED <<mode, config, tools, regQueue, registered, inflight, files,
                   now, resp, accepted>>
    /\ UNCHANGED <<children, call, args, env>>

----------------------------------------------------------------------------
(* Invocations *)

NoResponse == [kind |-> "none"]
NoCall == [fn |-> "none"]

\* The invocations awaiting render(): pending promises, in no order.
Pending == BagToSet(inflight)

\* The invocation awaits render(options).
Await(path, tool, input, options) ==
    /\ BagCardinality(inflight) < MaxInFlight
    /\ inflight' = inflight (+) SetToBag({ [ path |-> path, tool |-> tool,
                                             input |-> input,
                                             options |-> options ] })

\* A response as the transport receives it, with what the invocation was:
\* its request, the step that failed ("ok" when none did) and the files it
\* wrote; an invocation that exported also has the files it wrote over
\* (replaced).
Observed(r, request, step, written) ==
    [ request |-> request, step |-> step, written |-> written ] @@ r

\* The step at which an invocation that reached render() failed.
FailedStep(ro, eo) ==
    IF ro.threw THEN "render" ELSE IF eo.threw THEN "export" ELSE "ok"

\* What the MCP transport receives from a handler.
McpResponse(name, c) ==
    [ kind |-> "mcp", tool |-> name, threw |-> c.threw,
      result |-> IF c.threw THEN c.error ELSE c.value ]

\* An invocation of the handler of a registered tool, up to its await of
\* render(): it answers at once when the try block throws before that.
McpInvoke ==
    /\ pc = "connected"
    /\ \E tool \in registered, context \in Contexts :
          LET name == tool.handler
              pre == McpPrelude(name, context) IN
          IF pre.threw
          THEN /\ resp' = Observed(McpResponse(name,
                                         Handler(name, Wrote(pre, {}))),
                                    context, "prelude", {})
               /\ UNCHANGED inflight
          ELSE /\ Await("mcp", name, context, pre.value)
               /\ UNCHANGED resp
    /\ accepted' = TRUE
    /\ UNCHANGED <<pc, mode, config, pathState, tools, regQueue, registered,
                   startupLog, files, now>>
    /\ UNCHANGED <<children, call, args, env>>

----------------------------------------------------------------------------
(* The HTTP server: the callback of Deno.serve *)

Methods == { "GET", "POST", "OPTIONS" }

MissingFile == << "does-not-exist.png" >>
Filenames == { generateImageFilename(id, ts) : id \in Ids, ts \in 1 .. MaxTime }

Paths ==
    { <<"/health">>, <<"/generate">>, <<"/">>, <<"/unknown">> } \cup
    { <<"/charts/", f>> : f \in Filenames \cup { MissingFile } }

CorsHeaders ==
    [ allowOrigin |-> "*", allowMethods |-> "GET, POST, OPTIONS",
      allowHeaders |-> "Content-Type" ]

\* new Response(body, {status, headers}); status defaults to 200.
Response(route, status, contentType, body) ==
    [ kind |-> "http", route |-> route, status |-> status,
      contentType |-> contentType, cors |-> CorsHeaders, body |-> body ]

\* Variant: no preflight test before the routes.
RouteWithoutPreflight(method, path) ==
    IF path = <<"/health">> /\ method = "GET" THEN "health"
    ELSE IF path = <<"/generate">> /\ method = "POST" THEN "generate"
    ELSE IF path[1] = "/charts/" /\ method = "GET" THEN "charts"
    ELSE IF path = <<"/">> /\ method = "GET" THEN "docs"
    ELSE "notfound"

\* The chain of route tests of the callback, in the order of the code.
Route(method, path) ==
    IF method = "OPTIONS" THEN "preflight"
    ELSE IF path = <<"/health">> /\ method = "GET" THEN "health"
    ELSE IF path = <<"/generate">> /\ method = "POST" THEN "generate"
    ELSE IF path[1] = "/charts/" /\ method = "GET" THEN "charts"
    ELSE IF path = <<"/">> /\ method = "GET" THEN "docs"
    ELSE "notfound"

\* A body that is not JSON: text, a file's bytes, or nothing.
Plain(parts) == [ text |-> parts ]

\* The responses of the routes that do not generate a chart.
StaticResponse(route, path, present) ==
    CASE route = "preflight" -> Response(route, 204, Undefined, Plain(<<>>))
      [] route = "health" ->
            Response(route, 200, "application/json",
                     [ status |-> "ok", timestamp |-> "timestamp" ])
      [] route = "charts" ->
            IF path[2] \in present
            THEN Response(route, 200, "image/png",
                          Plain(<<"bytes of ", path[2]>>))
            ELSE Response(route, 404, Undefined, Plain(<<"Image not found">>))
      [] route = "docs" -> Response(route, 200, "text/html", Plain(<<"docs">>))
      [] route = "notfound" ->
            Response(route, 404, Undefined, Plain(<<"Not Found">>))

\* request.json(): throws for a body that is not JSON.
RequestJson(body) ==
    IF body.kind = "unparseable" THEN Throw(JsonSyntaxError) ELSE Return(body)

\* Variant: a handled failure is answered 400 as well.
GenerateEndpointFailure400(c) ==
    IF c.threw
    THEN Response("generate", 400, "application/json",
                  [ success |-> FALSE,
                    errorMessage |-> << "Invalid request: " >>
                                     \o ErrorMessage(c.error) ])
    ELSE Response("generate", IF c.value.success THEN 200 ELSE 400,
                  "application/json", c.value)

\* The /generate branch, for a completion c of the try block around
\* request.json() and generateChartForHttp: the response, or that of the
\* catch.
GenerateEndpoint(c) ==
    IF c.threw
    THEN Response("generate", 400, "application/json",
                  [ success |-> FALSE,
                    errorMessage |-> << "Invalid request: " >>
                                     \o ErrorMessage(c.error) ])
    ELSE Response("generate", 200, "application/json", c.value)

HttpReq(method, path, body) == [method |-> method, path |-> path, body |-> body]
NoBody == [kind |-> "none"]

\* The requests sent to the server: GET on every path, POST on /generate
\* and on a path that does not take it, OPTIONS on a route, on an image and
\* on a path nothing serves.
Requests ==
    { r \in Methods \X Paths :
         \/ r[1] = "GET"
         \/ r[1] = "POST" /\ r[2] \in { <<"/generate">>, <<"/health">> }
         \/ r[1] = "OPTIONS" /\ r[2] \in { <<"/generate">>, <<"/unknown">>,
                                            <<"/charts/", MissingFile>> } }

\* A request, up to the await of render() when it reaches it.
HttpRequest ==
    /\ pc = "listening"
    /\ \E r \in Requests :
          LET method == r[1]
              path == r[2]
              route == Route(method, path) IN
          IF route # "generate"
          THEN /\ resp' = Observed(StaticResponse(route, path, files),
                                    HttpReq(method, path, NoBody), "static", {})
               /\ UNCHANGED inflight
          ELSE \E body \in Bodies :
                  LET parsed == RequestJson(body) IN
                  IF parsed.threw
                  THEN /\ resp' = Observed(GenerateEndpoint(parsed),
                                            HttpReq(method, path, body),
                                            "parse", {})
                       /\ UNCHANGED inflight
                  ELSE LET pre == HttpPrelude(parsed.value) IN
                       IF pre.threw
                       THEN /\ resp' = Observed(
                                         GenerateEndpoint(
                                           generateChartForHttp(Wrote(pre, {}))),
                                         HttpReq(method, path, body),
                                         "prelude", {})
                            /\ UNCHANGED inflight
                       ELSE /\ Await("http", "", parsed.value, pre.value)
                            /\ UNCHANGED resp
    /\ accepted' = TRUE
    /\ UNCHANGED <<pc, mode, config, pathState, tools, regQueue, registered,
                   startupLog, files, now>>
    /\ UNCHANGED <<children, call, args, env>>

\* Variant: render() settles and the invocation ends without a response.
RenderReturnSilent(inv) ==
    /\ inv \in Pending
    /\ inflight' = inflight (-) SetToBag({inv})
    /\ UNCHANGED <<pc, mode, config, pathState, tools, regQueue, registered,
                   startupLog, files, now, resp, accepted, children, call, args, env>>

\* Variant: the export leaves only its own file in the directory.
RenderReturnReplacesFiles(inv) ==
    /\ inv \in Pending
    /\ \E ro \in RenderOutcomes(inv.options), id \in Ids,
          eo \in ExportOutcomes(pathState) :
          LET c == IF inv.path = "mcp"
                   THEN Handler(inv.tool,
                                generateChart(ro, id, now, eo, config))
                   ELSE generateChartForHttp(
                           generateChartForHttpTry(ro, id, now, eo, config))
          IN /\ resp' = IF inv.path = "mcp"
                        THEN Observed(McpResponse(inv.tool, c),
                                      inv.input, FailedStep(ro, eo),
                                      c.written)
                             @@ [ replaced |-> c.written \cap files ]
                        ELSE Observed(GenerateEndpoint(c),
                                      HttpReq("POST", <<"/generate">>,
                                              inv.input),
                                      FailedStep(ro, eo), c.written)
                             @@ [ replaced |-> c.written \cap files ]
             /\ files' = IF c.written = {} THEN files ELSE c.written
    /\ inflight' = inflight (-) SetToBag({inv})
    /\ UNCHANGED <<pc, mode, config, pathState, tools, regQueue, registered,
                   startupLog, now, accepted, children, call, args, env>>

\* render() settles for the invocation inv in flight: the rest of the
\* handler runs without yielding, up to its response.
RenderReturnOf(inv) ==
    /\ inv \in Pending
    /\ \E ro \in RenderOutcomes(inv.options), id \in Ids,
          eo \in ExportOutcomes(pathState) :
          LET c == IF inv.path = "mcp"
                   THEN Handler(inv.tool,
                                generateChart(ro, id, now, eo, config))
                   ELSE generateChartForHttp(
                           generateChartForHttpTry(ro, id, now, eo, config))
          IN /\ resp' = IF inv.path = "mcp"
                        THEN Observed(McpResponse(inv.tool, c),
                                      inv.input, FailedStep(ro, eo),
                                      c.written)
                             @@ [ replaced |-> c.written \cap files ]
                        ELSE Observed(GenerateEndpoint(c),
                                      HttpReq("POST", <<"/generate">>,
                                              inv.input),
                                      FailedStep(ro, eo), c.written)
                             @@ [ replaced |-> c.written \cap files ]
             /\ files' = files \cup c.written
    /\ inflight' = inflight (-) SetToBag({inv})
    /\ UNCHANGED <<pc, mode, config, pathState, tools, regQueue, registered,
                   startupLog, now, accepted, children, call, args, env>>

RenderReturn == \E inv \in Pending : RenderReturnOf(inv)

\* Time passes.
Tick ==
    /\ now < MaxTime
    /\ now' = now + 1
    /\ UNCHANGED <<pc, mode, config, pathState, tools, regQueue, registered,
                   startupLog, inflight, files, resp, accepted>>
    /\ UNCHANGED <<children, call, args, env>>

----------------------------------------------------------------------------
(* The specification *)

Configs ==
    { [ renderedImagePath |-> DefaultImagePath, renderedImageHostPath |-> h ] :
        h \in HostPathValues }

Init ==
    /\ pc = "init_dir"
    /\ args \in { <<"mcp">>, <<"http">> }
    /\ env \in Envs
    /\ mode = MainSwitch(args, env)
    /\ config = LoadConfig(env)
    /\ pathState \in { "absent", "dir", "file" }
    /\ tools = {}
    /\ regQueue = {}
    /\ registered = {}
    /\ startupLog = <<>>
    /\ inflight = EmptyBag
    /\ files = {}
    /\ now = 1
    /\ resp = NoResponse
    /\ accepted = FALSE
    /\ children = {}
    /\ call = NoCall

Next ==
    \/ InitializeAtStartup
    \/ ComposeMcpDepTools
    \/ CreateServer
    \/ RegisterToolWithLocalExecutor
    \/ StartupComplete
    \/ Connect
    \/ StartHttpServer
    \/ McpInvoke
    \/ HttpRequest
    \/ RenderReturn
    \/ Tick

Spec == Init /\ [][Next]_vars

\* The directory startTestServer makes with Deno.makeTempDir.
TestTempDir == << "tmp", "gpt-vis-test-1" >>
TestPort == << "8", "0", "8", "1" >>

\* Variant: the configuration is read again when the environment is set.
SetTestEnvironmentReloads ==
    /\ pc = "ready"
    /\ mode = "http"
    /\ env' = EnvSet(EnvSet(env, "PORT", TestPort),
                     "RENDERED_IMAGE_PATH", TestTempDir)
    /\ env' # env
    /\ config' = LoadConfig(env')
    /\ UNCHANGED <<pc, mode, pathState, tools, regQueue, registered,
                   startupLog, inflight, files, now, resp, accepted, children,
                   call, args>>

\* startTestServer up to its call of startHttpServer: the importer of the
\* HTTP server sets PORT and RENDERED_IMAGE_PATH once app.ts has been
\* evaluated.
SetTestEnvironment ==
    /\ pc = "ready"
    /\ mode = "http"
    /\ env' = EnvSet(EnvSet(env, "PORT", TestPort),
                     "RENDERED_IMAGE_PATH", TestTempDir)
    /\ env' # env
    /\ UNCHANGED <<pc, mode, config, pathState, tools, regQueue, registered,
                   startupLog, inflight, files, now, resp, accepted, children,
                   call, args>>

\* The server with an importer that sets its environment after the load,
\* over a run that fits in one millisecond of the clock.
EnvNext ==
    \/ InitializeAtStartup
    \/ ComposeMcpDepTools
    \/ CreateServer
    \/ RegisterToolWithLocalExecutor
    \/ StartupComplete
    \/ Connect
    \/ SetTestEnvironment
    \/ StartHttpServer
    \/ McpInvoke
    \/ HttpRequest
    \/ RenderReturn

SpecEnv == Init /\ [][EnvNext]_vars

\* Every invocation the program can put in flight.
Invocations ==
    { [ path |-> "http", tool |-> "", input |-> b,
        options |-> HttpPrelude(b).value ] :
        b \in { x \in Bodies \ {Unparseable} : ~ HttpPrelude(x).threw } } \cup
    { [ path |-> "mcp", tool |-> p[1], input |-> p[2],
        options |-> McpPrelude(p[1], p[2]).value ] :
        p \in { q \in UpstreamNames \X Contexts : ~ McpPrelude(q[1], q[2]).threw } }

\* The renderer and the export settle: render() of every invocation in
\* flight eventually returns or throws.
SpecLive ==
    /\ Init
    /\ [][Next]_vars
    /\ \A inv \in Invocations : WF_inflight(RenderReturnOf(inv))

----------------------------------------------------------------------------
(* The first draft of app.ts (registerToolWithNewExcuter): directory made  *)
(* with mkdir at load, every tool that passes the filter registered, the   *)
(* handler renders and exports by itself.                                  *)

DraftImagePath == << "tmp", "tmp" >>

\* mkdir(RENDERED_IMAGE_PATH, {recursive: true}) at load: succeeds on a
\* directory, fails on a file, may fail when the path is absent; a failure
\* ends the process with exit(1).
DraftMkdir ==
    /\ pc = "init_dir"
    /\ \E mkdirOk \in BOOLEAN :
          IF pathState = "dir" \/ (pathState = "absent" /\ mkdirOk)
          THEN pathState' = "dir" /\ pc' = "discover" /\ Log("dir_init_done")
          ELSE UNCHANGED pathState /\ pc' = "exit_1" /\ Log("dir_init_failed")
    /\ UNCHANGED <<mode, config, tools, regQueue, registered, inflight, files,
                   now, resp, accepted>>
    /\ UNCHANGED <<children, call, args, env>>

\* The filter of the draft: CHART_TYPE_UNSUPPORTED.includes(tool), with the
\* descriptor itself as the argument.
DraftSupportedTools(ts) ==
    { tool \in ts : ~ Includes(CHART_TYPE_UNSUPPORTED, JsObject(tool)) }

\* new ComposableMCPServer(...) and Object.values(tools).filter(...).
DraftCreateServer ==
    /\ pc = "create_server"
    /\ regQueue' = DraftSupportedTools(tools)
    /\ pc' = "register"
    /\ Log("server_created")
    /\ UNCHANGED <<mode, config, pathState, tools, registered, inflight,
                   files, now, resp, accepted>>
    /\ UNCHANGED <<children, call, args, env>>

\* One iteration of .forEach(registerToolWithNewExcuter): server.tool is
\* called for every tool it is given.
RegisterToolWithNewExcuter ==
    /\ pc = "register"
    /\ \E tool \in regQueue :
          /\ registered' = registered \cup { Registration(tool) }
          /\ regQueue' = regQueue \ {tool}
    /\ Log("registered")
    /\ UNCHANGED <<pc, mode, config, pathState, tools, inflight, files, now,
                   resp, accepted>>
    /\ UNCHANGED <<children, call, args, env>>

\* The parameter pattern ({ data }) of the draft's handler, evaluated before
\* its try block, then the options it renders.
DraftPrelude(name, context) ==
    IF context.kind = "null" THEN Throw(DestructureError)
    ELSE Return([type |-> MapLookup(name), data |-> Get(context, "data")])

\* The draft's handler from the point where render() settles: try block and
\* catch.
DraftHandler(ro, id, eo, cfg) ==
    IF ro.threw
    THEN Wrote(Return(ChartResult(TRUE, <<"Error: ">> \o ErrorMessage(ro.error))),
               {})
    ELSE LET path == Join(cfg.renderedImagePath, <<id, ".png">>) IN
         IF eo.threw
         THEN Wrote(Return(ChartResult(TRUE, <<"Error: ">>
                                              \o ErrorMessage(eo.error))), {})
         ELSE Wrote(Return(ChartResult(FALSE,
                                       <<"Generated image saved to ", path>>)),
                    { <<id, ".png">> })

\* An invocation of a tool of the draft, up to its await of render().
DraftInvoke ==
    /\ pc = "connected"
    /\ \E tool \in registered, context \in Contexts :
          LET name == tool.handler
              pre == DraftPrelude(name, context) IN
          IF pre.threw
          THEN /\ resp' = Observed(McpResponse(name, pre), context,
                                   "prelude", {})
               /\ UNCHANGED inflight
          ELSE /\ Await("mcp", name, context, pre.value)
               /\ UNCHANGED resp
    /\ accepted' = TRUE
    /\ UNCHANGED <<pc, mode, config, pathState, tools, regQueue, registered,
                   startupLog, files, now>>
    /\ UNCHANGED <<children, call, args, env>>

\* render() settles for an invocation of the draft.
DraftRenderReturn ==
    \E inv \in Pending :
       /\ \E ro \in RenderOutcomes(inv.options), id \in Ids,
             eo \in ExportOutcomes(pathState) :
             LET c == DraftHandler(ro, id, eo, config) IN
                /\ resp' = Observed(McpResponse(inv.tool, c),
                                    inv.input, FailedStep(ro, eo),
                                    c.written)
                /\ files' = files \cup c.written
       /\ inflight' = inflight (-) SetToBag({inv})
       /\ UNCHANGED <<pc, mode, config, pathState, tools, regQueue, registered,
                      startupLog, now, accepted>>
    /\ UNCHANGED <<children, call, args, env>>

DraftInit ==
    /\ pc = "init_dir"
    /\ mode = "mcp"
    /\ args = << >>
    /\ env = NoEnv
    /\ config = [ renderedImagePath |-> DraftImagePath,
                  renderedImageHostPath |-> Undefined ]
    /\ pathState \in { "absent", "dir", "file" }
    /\ tools = {}
    /\ regQueue = {}
    /\ registered = {}
    /\ startupLog = <<>>
    /\ inflight = EmptyBag
    /\ files = {}
    /\ now = 1
    /\ resp = NoResponse
    /\ accepted = FALSE
    /\ children = {}
    /\ call = NoCall

DraftNext ==
    \/ DraftMkdir
    \/ ComposeMcpDepTools
    \/ DraftCreateServer
    \/ RegisterToolWithNewExcuter
    \/ StartupComplete
    \/ Connect
    \/ DraftInvoke
    \/ DraftRenderReturn

SpecDraft == DraftInit /\ [][DraftNext]_vars

----------------------------------------------------------------------------
(* The life of the process under each entry point: mode "mcp" and "http"   *)
(* are main() of the entry point that imports app.ts (and registers the    *)
(* SIGINT/SIGTERM listeners once app.ts has been evaluated), "stdio" is    *)
(* stdio.server.ts, "sse" is startProxy of the --transport entry point.    *)

Signals == { "SIGINT", "SIGTERM" }
ProxyChild == "mcp-proxy"

\* stdio.server.ts imports { cleanupClients, server } from app.ts, which has
\* no export named cleanupClients: the import fails when the module graph
\* is linked, before any module is evaluated.
AppExports ==
    { "config", "initializeImageDirectory", "generateImageFilename",
      "generateImageResponse", "generateChart", "generateChartForHttp",
      "server" }
StdioImports == { "cleanupClients", "server" }

LinkStdioServer ==
    /\ pc = "link"
    /\ pc' = IF StdioImports \subseteq AppExports THEN "init_dir" ELSE "link_error"
    /\ UNCHANGED <<mode, config, pathState, tools, regQueue, registered,
                   startupLog, inflight, files, now, resp, accepted, children,
                   call, args, env>>

\* The transport session closes (the peer closed stdin).  startMcpServer
\* sets no onclose handler: nothing runs.
TransportClose ==
    /\ pc = "connected"
    /\ pc' = "closed"
    /\ Log("close")
    /\ UNCHANGED <<mode, config, pathState, tools, regQueue, registered,
                   inflight, files, now, resp, accepted, children, call, args, env>>

\* SIGINT or SIGTERM once the listeners of the entry point are registered:
\* the listener logs and calls Deno.exit(0).
Signal ==
    /\ mode \in { "mcp", "http" }
    /\ pc \in { "ready", "connected", "listening", "closed" }
    /\ \E sig \in Signals : Log(sig)
    /\ pc' = "exit_0"
    /\ UNCHANGED <<mode, config, pathState, tools, regQueue, registered,
                   inflight, files, now, resp, accepted, children, call, args, env>>

\* startProxy: spawn mcp-proxy and register the listeners that kill it.
StartProxy ==
    /\ pc = "proxy_start"
    /\ \/ /\ children' = children \cup {ProxyChild}
          /\ pc' = "proxy_running"
          /\ Log("spawn")
       \/ /\ pc' = "uncaught"
          /\ Log("spawn_failed")
          /\ UNCHANGED children
    /\ UNCHANGED <<mode, config, pathState, tools, regQueue, registered,
                   inflight, files, now, resp, accepted, call, args, env>>

\* SIGINT or SIGTERM in sse mode while mcp-proxy runs: the listener calls
\* child.kill().
ProxySignal ==
    /\ pc = "proxy_running"
    /\ ProxyChild \in children
    /\ \E sig \in Signals : Log(sig)
    /\ children' = children \ {ProxyChild}
    /\ UNCHANGED <<pc, mode, config, pathState, tools, regQueue, registered,
                   inflight, files, now, resp, accepted, call, args, env>>

\* mcp-proxy ends by itself.
ProxyExits ==
    /\ pc = "proxy_running"
    /\ ProxyChild \in children
    /\ children' = children \ {ProxyChild}
    /\ Log("child_exit")
    /\ UNCHANGED <<pc, mode, config, pathState, tools, regQueue, registered,
                   inflight, files, now, resp, accepted, call, args, env>>

\* await child.status settles once the child has ended; the module is over
\* and the process exits.
ProxyStatus ==
    /\ pc = "proxy_running"
    /\ ProxyChild \notin children
    /\ pc' = "exit_0"
    /\ Log("status")
    /\ UNCHANGED <<mode, config, pathState, tools, regQueue, registered,
                   inflight, files, now, resp, accepted, children, call, args, env>>

----------------------------------------------------------------------------
(* The --transport entry point: parseArgs, the validation of the transport  *)
(* and of the port, then startStdio or startProxy.  Its command line is    *)
(* the mapping from the options given to their values; a port is the       *)
(* sequence of its characters.                                             *)

DigitChars == { "0", "1", "2", "3", "4", "5", "6", "7", "8", "9" }
DigitValue(c) ==
    CASE c = "0" -> 0 [] c = "1" -> 1 [] c = "2" -> 2 [] c = "3" -> 3
      [] c = "4" -> 4 [] c = "5" -> 5 [] c = "6" -> 6 [] c = "7" -> 7
      [] c = "8" -> 8 [] c = "9" -> 9

\* The number read from the digits of s starting at position i.
RECURSIVE ParseDigits(_, _, _)
ParseDigits(s, i, acc) ==
    IF i > Len(s) \/ s[i] \notin DigitChars THEN acc
    ELSE ParseDigits(s, i + 1, acc * 10 + DigitValue(s[i]))

\* parseInt(s): an optional sign and the longest run of digits after it,
\* whatever follows; NaN when there is no digit.
ParseInt(s) ==
    LET signed == Len(s) >= 1 /\ s[1] \in { "-", "+" }
        start == IF signed THEN 2 ELSE 1
    IN IF start > Len(s) \/ s[start] \notin DigitChars
       THEN [ nan |-> TRUE, value |-> 0 ]
       ELSE [ nan |-> FALSE,
              value |-> (IF signed /\ s[1] = "-" THEN -1 ELSE 1)
                           * ParseDigits(s, start, 0) ]

DefaultPort == << "3", "0", "0", "0" >>

\* parseArgs(Deno.args, {...}): the options given, with the defaults
\* transport "stdio" and port PORT || "3000".
ParseArgs(a, e) ==
    [ transport |-> IF "transport" \in DOMAIN a THEN a["transport"] ELSE "stdio",
      port |-> IF "port" \in DOMAIN a THEN a["port"]
               ELSE IF IsSet(e, "PORT") /\ e["PORT"] # << >> THEN e["PORT"]
               ELSE DefaultPort,
      help |-> "help" \in DOMAIN a /\ a["help"] ]

\* The top level of the entry point up to the call of startStdio or
\* startProxy.
TransportEntry ==
    /\ pc = "parse_args"
    /\ LET a == ParseArgs(args, env)
           port == ParseInt(a.port) IN
          IF a.help
          THEN pc' = "exit_0" /\ Log("usage") /\ UNCHANGED mode
          ELSE IF ~ Includes(<<"stdio", "sse">>, JsString(a.transport))
          THEN pc' = "exit_1" /\ Log("invalid_transport") /\ UNCHANGED mode
          ELSE IF port.nan \/ port.value < 1 \/ port.value > 65535
          THEN pc' = "exit_1" /\ Log("invalid_port") /\ UNCHANGED mode
          ELSE IF a.transport = "stdio"
          THEN pc' = "link" /\ mode' = "stdio" /\ Log("starting")
          ELSE pc' = "proxy_start" /\ mode' = "sse" /\ Log("starting")
    /\ UNCHANGED <<config, pathState, tools, regQueue, registered, inflight,
                   files, now, resp, accepted, children, call, args, env>>

\* main() with the mode help, --help or -h: showUsage, and main returns.
ShowUsage ==
    /\ pc = "ready"
    /\ mode = "help"
    /\ pc' = "returned"
    /\ Log("usage")
    /\ UNCHANGED <<mode, config, pathState, tools, regQueue, registered,
                   inflight, files, now, resp, accepted, children, call, args, env>>

\* main() with any other mode: the default branch of the switch.
UnknownMode ==
    /\ pc = "ready"
    /\ mode = "unknown"
    /\ pc' = "exit_1"
    /\ Log("unknown_mode")
    /\ UNCHANGED <<mode, config, pathState, tools, regQueue, registered,
                   inflight, files, now, resp, accepted, children, call, args, env>>

\* Command lines of the mode entry point, and values of MODE.
MainArgs ==
    { << >>, <<"">>, <<"mcp">>, <<"stdio">>, <<"http">>, <<"server">>,
      <<"help">>, <<"HTTP">>, <<"sse">>, <<"http", "mcp">> }
ModeValues == { Undefined, "", "http", "Mcp", "-h", "proxy" }

Chars(n) ==
    CASE n = "0" -> <<"0">>
      [] n = "-1" -> <<"-", "1">>
      [] n = "80" -> <<"8", "0">>
      [] n = "65535" -> <<"6", "5", "5", "3", "5">>
      [] n = "65536" -> <<"6", "5", "5", "3", "6">>
      [] n = "abc" -> <<"a", "b", "c">>
      [] n = "80a" -> <<"8", "0", "a">>
      [] n = "" -> << >>

\* Command lines of the --transport entry point.
TransportArgs ==
    { << >>,
      [ help |-> TRUE ],
      [ help |-> TRUE, transport |-> "http" ],
      [ transport |-> "stdio" ],
      [ transport |-> "sse" ],
      [ transport |-> "http" ],
      [ transport |-> "" ],
      [ transport |-> "SSE", port |-> Chars("80") ] } \cup
    { [ transport |-> "sse", port |-> Chars(n) ] :
        n \in { "0", "-1", "80", "65535", "65536", "abc", "80a", "" } }

SelectorInit ==
    /\ \/ /\ pc = "init_dir"
          /\ args \in MainArgs
          /\ env \in { IF m = Undefined THEN NoEnv ELSE EnvSet(NoEnv, "MODE", m) :
                          m \in ModeValues }
          /\ mode = MainSwitch(args, env)
       \/ /\ pc = "parse_args"
          /\ args \in TransportArgs
          /\ env \in { NoEnv, EnvSet(NoEnv, "PORT", Chars("65536")),
                        EnvSet(NoEnv, "PORT", Chars("80")) }
          /\ mode = "cli"
    /\ config = LoadConfig(env)
    /\ pathState \in { "absent", "dir", "file" }
    /\ tools = {}
    /\ regQueue = {}
    /\ registered = {}
    /\ startupLog = <<>>
    /\ inflight = EmptyBag
    /\ files = {}
    /\ now = 1
    /\ resp = NoResponse
    /\ accepted = FALSE
    /\ children = {}
    /\ call = NoCall

SelectorNext ==
    \/ TransportEntry
    \/ LinkStdioServer
    \/ StartProxy
    \/ ProxySignal
    \/ ProxyExits
    \/ ProxyStatus
    \/ InitializeAtStartup
    \/ ComposeMcpDepTools
    \/ CreateServer
    \/ RegisterToolWithLocalExecutor
    \/ StartupComplete
    \/ Connect
    \/ StartHttpServer
    \/ ShowUsage
    \/ UnknownMode

SpecSelector == SelectorInit /\ [][SelectorNext]_vars

LifecycleInit ==
    /\ mode \in { "mcp", "http", "stdio", "sse" }
    /\ pc = CASE mode = "stdio" -> "link"
              [] mode = "sse" -> "proxy_start"
              [] OTHER -> "init_dir"
    /\ args = (IF mode \in { "stdio", "sse" } THEN [ transport |-> mode ]
               ELSE <<mode>>)
    /\ env \in Envs
    /\ config = LoadConfig(env)
    /\ pathState \in { "absent", "dir", "file" }
    /\ tools = {}
    /\ regQueue = {}
    /\ registered = {}
    /\ startupLog = <<>>
    /\ inflight = EmptyBag
    /\ files = {}
    /\ now = 1
    /\ resp = NoResponse
    /\ accepted = FALSE
    /\ children = {}
    /\ call = NoCall

LifecycleNext ==
    \/ LinkStdioServer
    \/ InitializeAtStartup
    \/ ComposeMcpDepTools
    \/ CreateServer
    \/ RegisterToolWithLocalExecutor
    \/ StartupComplete
    \/ Connect
    \/ StartHttpServer
    \/ TransportClose
    \/ Signal
    \/ StartProxy
    \/ ProxySignal
    \/ ProxyExits
    \/ ProxyStatus

SpecLifecycle == LifecycleInit /\ [][LifecycleNext]_vars

----------------------------------------------------------------------------
(* The constants module called on its own: isChartSupported(toolName) and   *)
(* the lookup CHART_TYPE_MAP[name], for tool names, denylisted names,      *)
(* property names of Object.prototype and other strings.                   *)

ToolNameInputs ==
    DOMAIN CHART_TYPE_MAP \cup
    { CHART_TYPE_UNSUPPORTED[i] : i \in DOMAIN CHART_TYPE_UNSUPPORTED } \cup
    ObjectPrototypeKeys \cup
    { "", "pie", "generate_waterfall_chart", "GENERATE_PIE_CHART",
      "generate_pie_chart " }

Called(c) == "result" \in DOMAIN c

CallIsChartSupported ==
    /\ call.fn = "isChartSupported"
    /\ ~ Called(call)
    /\ call' = [ fn |-> call.fn, arg |-> call.arg,
                 result |-> isChartSupported(call.arg) ]
    /\ UNCHANGED <<pc, mode, config, pathState, tools, regQueue, registered,
                   startupLog, inflight, files, now, resp, accepted, children,
                   args, env>>

CallMapLookup ==
    /\ call.fn = "lookup"
    /\ ~ Called(call)
    /\ call' = [ fn |-> call.fn, arg |-> call.arg,
                 result |-> MapLookup(call.arg) ]
    /\ UNCHANGED <<pc, mode, config, pathState, tools, regQueue, registered,
                   startupLog, inflight, files, now, resp, accepted, children,
                   args, env>>

ConstantsInit ==
    /\ pc = "constants"
    /\ mode = "mcp"
    /\ args = << >>
    /\ env = NoEnv
    /\ config = [ renderedImagePath |-> DefaultImagePath,
                  renderedImageHostPath |-> Undefined ]
    /\ pathState = "absent"
    /\ tools = {}
    /\ regQueue = {}
    /\ registered = {}
    /\ startupLog = <<>>
    /\ inflight = EmptyBag
    /\ files = {}
    /\ now = 1
    /\ resp = NoResponse
    /\ accepted = FALSE
    /\ children = {}
    /\ call \in { [fn |-> f, arg |-> n] :
                    f \in { "isChartSupported", "lookup" }, n \in ToolNameInputs }

ConstantsNext ==
    \/ CallIsChartSupported
    \/ CallMapLookup

SpecConstants == ConstantsInit /\ [][ConstantsNext]_vars

----------------------------------------------------------------------------
(* Properties *)

Denylist == { CHART_TYPE_UNSUPPORTED[i] : i \in DOMAIN CHART_TYPE_UNSUPPORTED }
StartupOver == pc \in { "ready", "connected", "listening" }

\* The last response is that of a tool handler / of POST /generate.
IsMcp == resp.kind = "mcp"
IsGenerate ==
    /\ resp.kind = "http"
    /\ resp.request.method = "POST"
    /\ resp.request.path = <<"/generate">>

\* The text block of a ChartResult.
Text == resp.result.content[1].text
Last(t) == t[Len(t)]

SuccessPrefixes ==
    { "Chart generated successfully! Access it at: ",
      "Chart generated and saved to: " }
ErrorPrefixes == { "Failed to generate chart: ", "Error executing " }

HasLocation(t) == Len(t) = 2 /\ t[1] \in SuccessPrefixes /\ Last(t[2]) \in Filenames
HasErrorMessage(t) == Len(t) >= 2 /\ t[1] \in ErrorPrefixes

\* C1: after startup the names with a registered handler are exactly the
\* discovered names that are keys of CHART_TYPE_MAP and not in
\* CHART_TYPE_UNSUPPORTED.
C1_FilteringInvariant ==
    StartupOver =>
        Names(registered) = (Names(tools) \cap DOMAIN CHART_TYPE_MAP) \ Denylist

\* C2: a tool handler never throws to the transport: it returns a
\* ChartResult, and when a step failed the result has isError = TRUE and one
\* text block.
C2_NoFaultToTransport ==
    IsMcp =>
        /\ ~ resp.threw
        /\ resp.result.isError \in BOOLEAN
        /\ Len(resp.result.content) = 1
        /\ resp.result.content[1].type = "text"
        /\ resp.step # "ok" => resp.result.isError

\* C2, witness: a payload without data was answered with an error result.
C2_Witness ==
    /\ IsMcp
    /\ resp.request = Object(<<>>)
    /\ ~ resp.threw
    /\ resp.result.isError
    /\ Text = << "Error executing ", resp.tool, ": ",
                 "Cannot convert undefined or null to object" >>

\* C3: a ChartResponse has exactly one of resultObj and errorMessage,
\* resultObj iff success; the text of a ChartResult carries a location iff
\* isError is false and an error message iff it is true.
C3_EnvelopeExclusivity ==
    /\ (IsGenerate /\ resp.status = 200) =>
          LET b == resp.body IN
          /\ ("resultObj" \in DOMAIN b) # ("errorMessage" \in DOMAIN b)
          /\ b.success <=> "resultObj" \in DOMAIN b
          /\ ~ b.success <=> "errorMessage" \in DOMAIN b
    /\ (IsMcp /\ ~ resp.threw) =>
          /\ HasLocation(Text) <=> ~ resp.result.isError
          /\ HasErrorMessage(Text) <=> resp.result.isError
          /\ HasLocation(Text) # HasErrorMessage(Text)

\* C3, witness: generateChartForHttp failed after the renderer threw.
C3_Witness ==
    /\ IsGenerate
    /\ resp.step = "render"
    /\ resp.body = [ success |-> FALSE, errorMessage |-> <<"render failed">> ]

Before(a, b) ==
    \A j \in DOMAIN startupLog :
        startupLog[j] = b => \E i \in 1 .. (j - 1) : startupLog[i] = a

\* C4: directory initialisation, discovery, registration and the connection
\* of the transport happen in this order, and no invocation is dispatched
\* before the transport is connected.
C4_StartupOrder ==
    /\ Before("dir_init_done", "discovery_done")
    /\ Before("dir_init_done", "discovery_failed")
    /\ Before("discovery_done", "registered")
    /\ Before("registration_done", "connect")
    /\ \A i, j \in DOMAIN startupLog :
          (startupLog[i] = "connect" /\ startupLog[j] = "registered") => j < i
    /\ pc = "connected" => regQueue = {}
    /\ accepted => pc \in { "connected", "listening" }
    /\ (resp # NoResponse \/ Pending # {}) => accepted

\* C4, witness: an invocation was dispatched on a connected transport with
\* registered tools.
C4_Witness ==
    /\ pc = "connected"
    /\ accepted
    /\ registered # {}
    /\ \E i \in DOMAIN startupLog : startupLog[i] = "registered"

C6_TypeFromToolIdentity ==
    /\ \A inv \in Pending :
          inv.path = "mcp" =>
              /\ inv.tool \in DOMAIN CHART_TYPE_MAP
              /\ inv.options["type"] = CHART_TYPE_MAP[inv.tool]
    /\ \A inv, other \in Pending :
          (inv.path = "mcp" /\ other.path = "mcp" /\ inv.tool = other.tool) =>
              inv.options["type"] = other.options["type"]

\* C6, witness: a payload naming the type pin-map is rendered as a pie by
\* the pie tool.
C6_Witness ==
    \E inv \in Pending :
       /\ inv.path = "mcp"
       /\ inv.tool = "generate_pie_chart"
       /\ Get(inv.input, "type") = "pin-map"
       /\ inv.options["type"] = "pie"

\* The location the response of a generation with filename f must carry.
ExpectedLocation(f, http) ==
    IF config.renderedImageHostPath \notin { Undefined, "" }
    THEN << config.renderedImageHostPath, "/", f >>
    ELSE IF http THEN << "/charts/", f >>
         ELSE config.renderedImagePath \o << f >>

\* C7: the location of a success is {renderedImageHostPath}/F when the host
\* path is configured (non-empty), else join(renderedImagePath, F) for a
\* tool handler and /charts/F for HTTP, F being the file the call exported.
C7_ResponseLocation ==
    /\ (IsMcp /\ ~ resp.threw /\ ~ resp.result.isError) =>
          \E f \in resp.written : Text[2] = ExpectedLocation(f, FALSE)
    /\ (IsGenerate /\ resp.status = 200 /\ resp.body.success) =>
          \E f \in resp.written : resp.body.resultObj = ExpectedLocation(f, TRUE)

\* C7, witness: an HTTP success without a host path.
C7_Witness ==
    /\ IsGenerate
    /\ resp.status = 200
    /\ resp.body.success
    /\ config.renderedImageHostPath = Undefined
    /\ resp.body.resultObj[1] = "/charts/"

\* The renderer is never called from the HTTP path with an absent or empty
\* type.
HttpRendersTyped ==
    \A inv \in Pending :
       inv.path = "http" => inv.options["type"] \notin { Undefined, "" }

TypeRequired == [ success |-> FALSE, errorMessage |-> <<"Chart type is required">> ]

\* C8 (as stated): every body of POST /generate whose type is absent or empty
\* is answered 200 with {success: false, errorMessage: "Chart type is
\* required"}, and the renderer is never called with such a type.
C8_TypeRequired ==
    /\ ( /\ IsGenerate
         /\ resp.request.body.kind # "unparseable"
         /\ Get(resp.request.body, "type") \in { Undefined, "" } ) =>
            (resp.status = 200 /\ resp.body = TypeRequired)
    /\ HttpRendersTyped

\* C8 (amended): every body other than null whose type is absent or empty is
\* answered 200 with {success: false, errorMessage: "Chart type is
\* required"}; the body null is answered 200 with success false and the
\* message of the destructuring error; the renderer is never called with an
\* absent or empty type.
C8_TypeRequiredUnlessNull ==
    /\ ( /\ IsGenerate
         /\ resp.request.body.kind \notin { "unparseable", "null" }
         /\ Get(resp.request.body, "type") \in { Undefined, "" } ) =>
            (resp.status = 200 /\ resp.body = TypeRequired)
    /\ (IsGenerate /\ resp.request.body.kind = "null") =>
            /\ resp.status = 200
            /\ resp.body = [ success |-> FALSE,
                             errorMessage |->
                                <<"Cannot destructure property of null">> ]
    /\ HttpRendersTyped

\* C8, witness: a body with data and no type was refused.
C8_Witness ==
    /\ IsGenerate
    /\ resp.request.body = Object([data |-> "rows"])
    /\ resp.status = 200
    /\ resp.body = TypeRequired
    /\ resp.step = "prelude"

\* The routes the server knows.
KnownRoute(method, path) ==
    \/ method = "OPTIONS"
    \/ method = "POST" /\ path = <<"/generate">>
    \/ method = "GET" /\ (path \in { <<"/health">>, <<"/">> } \/ path[1] = "/charts/")

\* C9: POST /generate is answered 400 "Invalid request: ..." iff the body is
\* not JSON, and 200 with a ChartResponse for every body that is; an unknown
\* route is answered 404 "Not Found", GET /charts/<missing> 404 "Image not
\* found".
C9_StatusCodes ==
    /\ IsGenerate =>
          /\ resp.status = 400 <=> resp.request.body.kind = "unparseable"
          /\ resp.status = 400 =>
                /\ resp.body.success = FALSE
                /\ resp.body.errorMessage[1] = "Invalid request: "
          /\ resp.request.body.kind # "unparseable" =>
                /\ resp.status = 200
                /\ resp.body.success \in BOOLEAN
                /\ DOMAIN resp.body \in { { "success", "resultObj" },
                                          { "success", "errorMessage" } }
    /\ ( /\ resp.kind = "http"
         /\ ~ KnownRoute(resp.request.method, resp.request.path) ) =>
            (resp.status = 404 /\ resp.body = Plain(<<"Not Found">>))
    /\ ( /\ resp.kind = "http"
         /\ resp.request.method = "GET"
         /\ resp.request.path[1] = "/charts/"
         /\ resp.request.path[2] \notin files ) =>
            (resp.status = 404 /\ resp.body = Plain(<<"Image not found">>))

\* C9, witness: the renderer rejected a body that is JSON and the answer is
\* 200.
C9_Witness ==
    /\ IsGenerate
    /\ resp.request.body.kind = "object"
    /\ resp.step = "render"
    /\ resp.status = 200
    /\ ~ resp.body.success

\* C10: no tool whose name is in CHART_TYPE_UNSUPPORTED has a registered
\* handler.
C10_DenylistOverrides ==
    \A t \in registered : t.name \notin Denylist

\* C11 (as stated): isChartSupported(toolName) is true exactly when toolName
\* is an own key of CHART_TYPE_MAP and is not in CHART_TYPE_UNSUPPORTED, for
\* every string.
C11_IsChartSupportedIff ==
    (call.fn = "isChartSupported" /\ Called(call)) =>
        (call.result <=> ( /\ call.arg \in DOMAIN CHART_TYPE_MAP
                           /\ call.arg \notin Denylist ))

\* C12: every key of CHART_TYPE_MAP looks up a non-empty token (pie, line
\* and bar for the pie, line and bar tools), and isChartSupported is false
\* for every name of CHART_TYPE_UNSUPPORTED.
C12_RegistryTotality ==
    /\ (call.fn = "lookup" /\ Called(call)
          /\ call.arg \in DOMAIN CHART_TYPE_MAP) =>
            /\ call.result \notin { Undefined, "", InheritedProperty }
            /\ call.arg = "generate_pie_chart" => call.result = "pie"
            /\ call.arg = "generate_line_chart" => call.result = "line"
            /\ call.arg = "generate_bar_chart" => call.result = "bar"
    /\ (call.fn = "isChartSupported" /\ Called(call)
          /\ call.arg \in Denylist) => ~ call.result

\* C12, witness: isChartSupported was called on a denylisted name and
\* answered false.
C12_Witness ==
    /\ call.fn = "isChartSupported"
    /\ Called(call)
    /\ call.arg = "geographic_pin_map"
    /\ ~ call.result

\* C13 (as stated): the renderer is called with the type, the data and every
\* other field of the payload (tool payload or request body), unchanged.
C13_OptionsForwarded ==
    \A inv \in Pending :
       /\ DOMAIN inv.options = { "type", "data" } \cup RestKeys(inv.input)
       /\ inv.options["data"] = Get(inv.input, "data")
       /\ \A k \in RestKeys(inv.input) : inv.options[k] = Get(inv.input, k)

Logged(e) == \E i \in DOMAIN startupLog : startupLog[i] = e

\* C14 (as stated): when the output directory cannot be created or accessed
\* at startup the process exits with code 1 before discovery, with no tool
\* registered and no invocation accepted; and the server never serves while
\* the output directory is unusable.
C14_NoServingWithoutDirectory ==
    /\ Logged("dir_init_failed") =>
          /\ pc = "exit_1"
          /\ ~ Logged("discovery_done") /\ ~ Logged("discovery_failed")
          /\ children = {}
          /\ registered = {}
          /\ ~ accepted
    /\ pc \in { "connected", "listening" } => pathState = "dir"

\* C15 (as stated): when discovery fails, or yields no tool, startup halts:
\* no server is created, readiness is not announced and no transport is
\* connected.
C15_DiscoveryFailureHalts ==
    (Logged("discovery_failed") \/ (Logged("discovery_done") /\ tools = {})) =>
        /\ ~ Logged("server_created")
        /\ ~ Logged("registration_done")
        /\ ~ Logged("connect") /\ ~ Logged("listen")
        /\ pc \notin { "ready", "connected", "listening" }

\* C16 (as stated): in every stdio entry point, once the close of the
\* transport has been handled no upstream subprocess spawned by discovery
\* is alive, and the cleanup operation stdio.server.ts imports is one that
\* app.ts exports.
C16_CleanupOnClose ==
    /\ pc = "closed" => UpstreamChild \notin children
    /\ pc # "link_error"

\* C17 (as stated): when SIGINT or SIGTERM ends the process, no child it
\* spawned (upstream subprocess, mcp-proxy) is still running at the exit.
C17_CleanupBeforeExit ==
    (pc = "exit_0" /\ (Logged("SIGINT") \/ Logged("SIGTERM"))) => children = {}

\* The request an invocation in flight answers.
RequestOf(inv) ==
    IF inv.path = "mcp" THEN inv.input
    ELSE HttpReq("POST", <<"/generate">>, inv.input)

\* The last response is the answer to an invocation like inv that reached
\* render().
Answers(inv) ==
    /\ resp.kind = (IF inv.path = "mcp" THEN "mcp" ELSE "http")
    /\ resp.step \in { "ok", "render", "export" }
    /\ resp.request = RequestOf(inv)
    /\ inv.path = "mcp" => resp.tool = inv.tool

\* An invocation leaves the set in flight only one at a time and with a
\* response to its request.
AnsweredOnce ==
    \A inv \in Invocations :
       CopiesIn(inv, inflight') < CopiesIn(inv, inflight) =>
          /\ CopiesIn(inv, inflight') = CopiesIn(inv, inflight) - 1
          /\ BagCardinality(inflight') = BagCardinality(inflight) - 1
          /\ Answers(inv)'

\* C18: when render() and the export settle, every invocation in flight is
\* eventually answered, with one response; an invocation accepted is never
\* followed by the end of the process, and the server still takes requests.
C18_RunsToCompletion ==
    /\ [](accepted => pc \in { "connected", "listening" })
    /\ [](pc = "listening" => ENABLED HttpRequest)
    /\ []((pc = "connected" /\ registered # {}) => ENABLED McpInvoke)
    /\ [][AnsweredOnce]_inflight
    /\ \A inv \in Invocations : []<>(inv \notin Pending \/ Answers(inv))

\* C18, witness: a failed invocation was answered while another one is in
\* flight.
C18_Witness ==
    /\ pc \in { "connected", "listening" }
    /\ resp.kind \in { "mcp", "http" }
    /\ resp.step \in { "render", "export" }
    /\ Pending # {}

\* C19: a second call of initializeImageDirectory, made when the first one
\* returned, raises no error and leaves the directory and its contents as
\* they are: the HTTP entry point, which calls it again after app.ts did,
\* always goes on to listen.
C19_InitIdempotent ==
    /\ [](pc = "ready" =>
            \A mkdirOk \in BOOLEAN :
               initializeImageDirectory(pathState, mkdirOk)
                  = [threw |-> FALSE, state |-> pathState])
    /\ [](~ Logged("http_init_failed"))
    /\ [][StartHttpServer =>
            (pc' = "listening" /\ pathState' = pathState /\ files' = files)]_pc

\* C19, witness: the HTTP server listens after both calls.
C19_Witness ==
    /\ pc = "listening"
    /\ Logged("dir_init_done")
    /\ Logged("listen")

\* C20: every HTTP response carries the three CORS headers, and every
\* OPTIONS request is answered 204 by the preflight branch, whatever its
\* path.
C20_CorsEverywhere ==
    resp.kind = "http" =>
       /\ resp.cors = [ allowOrigin |-> "*",
                        allowMethods |-> "GET, POST, OPTIONS",
                        allowHeaders |-> "Content-Type" ]
       /\ resp.request.method = "OPTIONS" =>
             /\ resp.status = 204
             /\ resp.route = "preflight"
             /\ resp.body = Plain(<<>>)

\* C20, witness: OPTIONS on a path nothing serves was answered 204.
C20_Witness ==
    /\ resp.kind = "http"
    /\ resp.request.method = "OPTIONS"
    /\ resp.request.path = <<"/unknown">>
    /\ resp.status = 204

----------------------------------------------------------------------------
(* The transport selectors *)

\* The process was started through the mode entry point / through the
\* --transport entry point.
ModeEntryPoint == mode \in { "mcp", "http", "help", "unknown" }
TransportEntryPoint == mode \in { "cli", "stdio", "sse" }

StdioModes == { "mcp", "stdio" }
HttpModes == { "http", "server" }
HelpModes == { "help", "--help", "-h" }

\* The mode asked for: the first argument when there is a non-empty one,
\* else MODE when it is set and not empty, else mcp; in lower case.
SelectedMode ==
    ToLowerCase(IF Len(args) >= 1 /\ args[1] # "" THEN args[1]
                ELSE IF IsSet(env, "MODE") /\ env["MODE"] # "" THEN env["MODE"]
                ELSE "mcp")

\* The selection of the mode entry point.
ModeSelection ==
    ModeEntryPoint =>
       /\ Logged("connect") => SelectedMode \in StdioModes
       /\ Logged("listen") => SelectedMode \in HttpModes
       /\ ~ (Logged("connect") /\ Logged("listen"))
       /\ ~ Logged("spawn") /\ ProxyChild \notin children
       /\ (pc = "ready" /\ SelectedMode \in StdioModes) =>
             (ENABLED Connect /\ ~ ENABLED StartHttpServer)
       /\ (pc = "ready" /\ SelectedMode \in HttpModes) =>
             (ENABLED StartHttpServer /\ ~ ENABLED Connect)
       /\ SelectedMode \notin (StdioModes \cup HttpModes \cup HelpModes) =>
             /\ ~ Logged("connect") /\ ~ Logged("listen")
             /\ pc = "ready" => (ENABLED UnknownMode /\ ~ ENABLED ShowUsage)
             /\ pc \notin { "connected", "listening", "returned" }
             /\ Logged("unknown_mode") => pc = "exit_1"

\* The command line names a transport other than stdio and sse, or a port
\* that is not a number in 1..65535.
InvalidSelection ==
    LET a == ParseArgs(args, env)
        port == ParseInt(a.port)
    IN \/ a.transport \notin { "stdio", "sse" }
       \/ port.nan
       \/ port.value \notin 1 .. 65535

HelpRequested == "help" \in DOMAIN args /\ args["help"]

\* No server and no proxy was started, and no module of the server loaded.
NothingStarted ==
    /\ ~ Logged("starting") /\ ~ Logged("spawn")
    /\ ~ Logged("connect") /\ ~ Logged("listen")
    /\ ~ Logged("dir_init_done") /\ ~ Logged("discovery_done")
    /\ children = {}
    /\ mode = "cli"

McpSuccess == IsMcp /\ ~ resp.threw /\ ~ resp.result.isError
HttpSuccess == IsGenerate /\ resp.status = 200 /\ resp.body.success

\* A response given in this step reports a location built from the
\* configuration as it was before the step.
LocationFromConfig ==
    resp' # resp =>
       /\ McpSuccess' =>
             \E f \in resp'.written :
                resp'.result.content[1].text[2] = ExpectedLocation(f, FALSE)
       /\ HttpSuccess' =>
             \E f \in resp'.written :
                resp'.body.resultObj = ExpectedLocation(f, TRUE)

\* C22: renderedImagePath and renderedImageHostPath are the ones read from
\* the environment at load; no step changes them, a change of the
\* environment included; and every response reports a location relative to
\* them, whatever the environment has become.
C22_ConfigImmutable ==
    /\ config = LoadConfig(env)
    /\ [][config' = config]_vars
    /\ [][LocationFromConfig]_vars
    /\ [](config.renderedImagePath = DefaultImagePath)

\* C22, witness: a generation succeeded under the default directory and the
\* host path of the load while RENDERED_IMAGE_PATH names another directory.
C22_Witness ==
    /\ HttpSuccess
    /\ IsSet(env, "RENDERED_IMAGE_PATH")
    /\ env["RENDERED_IMAGE_PATH"] = TestTempDir
    /\ LoadConfig(env) # config
    /\ config.renderedImagePath = DefaultImagePath
    /\ \E f \in resp.written : resp.body.resultObj = ExpectedLocation(f, TRUE)

\* The last response is that of the handler of a tool CHART_TYPE_MAP has no
\* entry for.
UnmappedTool == IsMcp /\ resp.tool \notin DOMAIN CHART_TYPE_MAP

UnknownChartType(n) ==
    << "Error executing ", n, ": ", "Unknown chart type for tool: ", n >>

\* The renderer is not called for a tool without entry, a tool without
\* entry does not stop the startup and is registered.
UnmappedNeverRendered ==
    /\ \A inv \in Pending :
          inv.path = "mcp" => inv.tool \in DOMAIN CHART_TYPE_MAP
    /\ UnmappedTool => (resp.step = "prelude" /\ resp.written = {})
    /\ Logged("discovery_done") => pc \notin { "exit_1", "uncaught" }
    /\ StartupOver =>
          \A t \in tools :
             t.name \notin (DOMAIN CHART_TYPE_MAP \cup Denylist) =>
                Registration(t) \in registered

\* C23 (as stated): every invocation of the handler of a tool n without
\* entry in CHART_TYPE_MAP returns isError = true with the text "Error
\* executing n: Unknown chart type for tool: n"; the renderer is not called,
\* no file is written, and the startup succeeds with such a tool.
C23_UnknownTypePerRequest ==
    /\ UnmappedTool =>
          /\ ~ resp.threw
          /\ resp.result.isError
          /\ Text = UnknownChartType(resp.tool)
    /\ UnmappedNeverRendered

\* C23 (amended): an invocation of the handler of a tool n without entry
\* returns isError = true; its text is "Error executing n: Unknown chart type
\* for tool: n" when the payload carries data, and "Error executing n: "
\* followed by the message of the TypeError when the payload is null or has
\* no data; the renderer is not called, no file is written, and the startup
\* succeeds with such a tool.
C23_UnknownTypeWhenData ==
    /\ UnmappedTool =>
          /\ ~ resp.threw
          /\ resp.result.isError
          /\ Get(resp.request, "data") # Undefined =>
                Text = UnknownChartType(resp.tool)
          /\ Get(resp.request, "data") = Undefined =>
                /\ Len(Text) = 4
                /\ SubSeq(Text, 1, 3) = << "Error executing ", resp.tool, ": " >>
                /\ Text[4] \in { "Cannot destructure property of null",
                                  "Cannot convert undefined or null to object" }
    /\ UnmappedNeverRendered

\* C23, witness: the handler of generate_waterfall_chart, given data,
\* answered that the chart type is unknown.
C23_Witness ==
    /\ IsMcp
    /\ resp.tool = "generate_waterfall_chart"
    /\ resp.request = Object([data |-> "rows"])
    /\ resp.result.isError
    /\ Text = UnknownChartType("generate_waterfall_chart")
    /\ resp.written = {}

GeographicTypes == { "district-map", "path-map", "pin-map" }

\* C24 (as stated): after startup, whatever the tools discovered, no
\* registered tool name maps through CHART_TYPE_MAP to district-map,
\* path-map or pin-map.
C24_NoGeographicHandler ==
    StartupOver =>
       \A t \in registered : MapLookup(t.name) \notin GeographicTypes

\* The message texts of the errors each step can raise.
RenderMessages == { ErrorMessage(e) : e \in RenderErrors }
ExportMessages == { ErrorMessage(e) : e \in ExportErrors }
ExtractionMessages(n) ==
    { << "Cannot destructure property of null" >>,
      << "Cannot convert undefined or null to object" >>,
      << "Unknown chart type for tool: ", n >> }
ValidationMessages ==
    { << "Cannot destructure property of null" >>, << "Chart type is required" >> }

\* The messages behind the step at which the last invocation failed.
CauseMessages ==
    CASE resp.step = "render" -> RenderMessages
      [] resp.step = "export" -> ExportMessages
      [] resp.step = "prelude" /\ IsMcp -> ExtractionMessages(resp.tool)
      [] resp.step = "prelude" /\ ~ IsMcp -> ValidationMessages
      [] resp.step = "parse" -> { << "Unexpected token in JSON" >> }
      [] OTHER -> {}

\* C25: a failure envelope carries the message of the error behind it: for
\* a tool handler after "Failed to generate chart: " when render() or the
\* export failed and after "Error executing <tool>: " when the extraction of
\* the data or the resolution of the type failed, never the latter for a
\* failure of render(); for POST /generate as errorMessage, after "Invalid
\* request: " for a body that is not JSON and for no other failure.
C25_ErrorTextCarriesCause ==
    /\ (IsMcp /\ resp.result.isError) =>
          /\ resp.step \in { "prelude", "render", "export" }
          /\ resp.step \in { "render", "export" } =>
                \E m \in CauseMessages :
                   Text = << "Failed to generate chart: " >> \o m
          /\ resp.step = "prelude" =>
                \E m \in CauseMessages :
                   Text = << "Error executing ", resp.tool, ": " >> \o m
          /\ resp.step = "render" => Text[1] # "Error executing "
    /\ (IsMcp /\ resp.step # "ok") => resp.result.isError
    /\ (IsGenerate /\ ~ resp.body.success) =>
          /\ resp.step \in { "parse", "prelude", "render", "export" }
          /\ resp.step = "parse" =>
                \E m \in CauseMessages :
                   resp.body.errorMessage = << "Invalid request: " >> \o m
          /\ resp.step # "parse" =>
                /\ resp.body.errorMessage \in CauseMessages
                /\ resp.body.errorMessage[1] # "Invalid request: "
          /\ resp.step = "parse" <=> resp.request.body.kind = "unparseable"
    /\ (IsGenerate /\ resp.step # "ok") => ~ resp.body.success

\* C25, witness: render() rejected with a value that is no Error and the
\* tool handler reported its text after "Failed to generate chart: ".
C25_Witness ==
    /\ IsMcp
    /\ resp.step = "render"
    /\ resp.result.isError
    /\ Text = << "Failed to generate chart: ", "render rejected" >>

\* The file the last response names.
NamedFile ==
    IF IsMcp THEN Last(Text[2]) ELSE Last(resp.body.resultObj)

\* A step in which an invocation that awaited render() ends: the other
\* invocations stay in flight as they are, every file that was there stays,
\* a success names the one file this invocation wrote, which bears the time
\* of the export, and a failure writes nothing.
EndsAlone ==
    BagCardinality(inflight') < BagCardinality(inflight) =>
       \E inv \in Pending :
          /\ inflight' = inflight (-) SetToBag({inv})
          /\ Answers(inv)'
          /\ files \subseteq files'
          /\ files' \ files \subseteq resp'.written
          /\ (McpSuccess \/ HttpSuccess)' =>
                /\ resp'.written = { NamedFile' }
                /\ NamedFile' \in { generateImageFilename(id, now) : id \in Ids }
                /\ files' = files \cup { NamedFile' }
          /\ ~ (McpSuccess \/ HttpSuccess)' =>
                (resp'.written = {} /\ files' = files)

\* C26: invocations that overlap are independent: each one that ends
\* answers its own request and names exactly the file it exported, no file
\* written by another is removed or replaced, the others stay in flight, and
\* an invocation in flight can always end, whatever else is in flight.
C26_ConcurrentIndependent ==
    /\ [][EndsAlone]_vars
    /\ [][files' # files =>
            BagCardinality(inflight') < BagCardinality(inflight)]_vars
    /\ [](\A inv \in Pending : ENABLED RenderReturnOf(inv))

\* C26, witness: an invocation succeeded with its own file while another
\* was in flight and the file of an earlier one was in the directory.
C26_Witness ==
    /\ (McpSuccess \/ HttpSuccess)
    /\ Pending # {}
    /\ resp.written = { NamedFile }
    /\ \E f \in files : f # NamedFile

\* chart_<timestamp>_<id>.png, with the digits of a timestamp and an id of 8
\* characters.
WellFormedFilename(f) ==
    /\ Len(f) = 5
    /\ f[1] = "chart_"
    /\ f[2] \in Nat
    /\ f[3] = "_"
    /\ Len(f[4]) = 8
    /\ f[5] = ".png"

\* A step in which an invocation exports to a name that is already there:
\* the directory has the same names after it, the invocation ends with a
\* success for that name and is not run again.
CollisionKeepsName ==
    (resp' # resp /\ (McpSuccess \/ HttpSuccess)' /\ NamedFile' \in files) =>
       /\ files' = files
       /\ resp'.written = { NamedFile' }
       /\ resp'.replaced = { NamedFile' }
       /\ BagCardinality(inflight') = BagCardinality(inflight) - 1

\* C27: every file written is named chart_<timestamp>_<id>.png with the
\* time of its export and an id of 8 characters; a success names one such
\* file; an export to a name that is already there is not renamed or
\* retried, it writes to the same path, and the response reports the
\* location every success for that name reports.
C27_FilenameAndCollision ==
    /\ [](\A f \in files : WellFormedFilename(f) /\ f[2] \in 1 .. now)
    /\ []((McpSuccess \/ HttpSuccess) =>
            /\ WellFormedFilename(NamedFile)
            /\ resp.written = { NamedFile }
            /\ IsMcp => Text[2] = ExpectedLocation(NamedFile, FALSE)
            /\ ~ IsMcp => resp.body.resultObj = ExpectedLocation(NamedFile, TRUE))
    /\ [][resp' # resp /\ (McpSuccess \/ HttpSuccess)' =>
             NamedFile'[2] = now]_vars
    /\ [][CollisionKeepsName]_vars

\* C27, witness: a second invocation exported in the same millisecond to
\* the name of a file that was there, and reports it.
C27_Witness ==
    /\ HttpSuccess
    /\ resp.replaced = { NamedFile }
    /\ files = { NamedFile }
    /\ resp.body.resultObj = ExpectedLocation(NamedFile, TRUE)

\* The number of calls of server.tool so far.
Registrations ==
    Cardinality({ i \in DOMAIN startupLog : startupLog[i] = "registered" })

\* C28: every registration carries the name, the description and the input
\* schema of one discovered descriptor, and a handler bound to that name; a
\* name is registered at most once; and the handler of a tool renders the
\* chart type of its own name.
C28_DescriptorPassThrough ==
    /\ \A r \in registered :
          \E t \in tools :
             /\ r.name = t.name
             /\ r.description = t.description
             /\ r.inputSchema.jsonSchema = t.inputSchema
             /\ r.handler = t.name
    /\ \A r, q \in registered : r.name = q.name => r = q
    /\ Registrations = Cardinality(registered)
    /\ Registrations <= Cardinality(Names(tools))
    /\ \A inv \in Pending :
          inv.path = "mcp" =>
             /\ inv.tool \in Names(registered)
             /\ inv.options["type"] = MapLookup(inv.tool)
    /\ IsMcp => resp.tool \in Names(registered)

\* C28, witness: two tools are registered, each with its own description and
\* schema, and the handler of the pie tool is rendering a pie.
C28_Witness ==
    /\ StartupOver
    /\ Cardinality(registered) = 2
    /\ \A r \in registered :
          /\ r.description = << "description of ", r.name >>
          /\ r.inputSchema.jsonSchema = << "schema of ", r.name >>
    /\ \E inv \in Pending :
          inv.tool = "generate_pie_chart" /\ inv.options["type"] = "pie"

\* A step that answers an invocation which failed before the export: at the
\* parsing of the body, at the extraction or validation, or at render().
FailsBeforeExport ==
    /\ resp' # resp
    /\ resp'.kind \in { "mcp", "http" }
    /\ resp'.step \in { "parse", "prelude", "render" }

\* C29: an invocation that fails before the export (type validation on the
\* HTTP path, extraction of the data or resolution of the type in a tool
\* handler, a throw of render()) generates no filename, exports nothing and
\* leaves the files of the output directory as they were.
C29_FailureLeavesDirectory ==
    /\ [][FailsBeforeExport =>
            /\ files' = files
            /\ resp'.written = {}
            /\ resp'.step = "render" => resp'.replaced = {}]_vars
    /\ []((resp.kind \in { "mcp", "http" }
            /\ resp.step \in { "parse", "prelude", "render" }) =>
             /\ resp.written = {}
             /\ IsMcp => (resp.result.isError /\ ~ HasLocation(Text))
             /\ IsGenerate => "resultObj" \notin DOMAIN resp.body)

\* C29, witness: render() threw for a tool handler while the directory held
\* a file, and nothing was written.
C29_Witness ==
    /\ IsMcp
    /\ resp.step = "render"
    /\ resp.result.isError
    /\ resp.written = {}
    /\ files # {}

\* C30 (as stated): whenever initializeImageDirectory has returned without
\* throwing, at the load of app.ts or at the start of the HTTP server, the
\* path is a directory files can be written into, whatever was at the path
\* before; and it throws only when it could not make the directory.
C30_InitPostcondition ==
    /\ (Logged("dir_init_done") \/ Logged("listen")) => pathState = "dir"
    /\ (Logged("dir_init_failed") \/ Logged("http_init_failed")) =>
          pathState # "dir"

====
